---- MODULE Spec2Model ----
(***************************************************************************)
(* Model of the PDF catalog analyzer: the page classifier of               *)
(* lib/pdf_analyzer.py, the response parser and the per-page fallback      *)
(* chain of lib/ai_extraction.py, and the batch and streaming entry        *)
(* points of lib/pipeline.py.                                              *)
(*                                                                         *)
(* A page text is a sequence of lines, a line a sequence of words.  It     *)
(* denotes the Python string obtained by joining the words of a line with  *)
(* one space and the lines with "\n"; an empty line is a blank line.       *)
(***************************************************************************)
EXTENDS Integers, Sequences, FiniteSets, TLC

\* ------------------------------------------------------------------ bounds
MaxLines == 3
MaxPages == 3
MaxCore == 4
ParityPages == 2

\* ------------------------------------------------------- program constants
TabularThreshold == 5
PartLineThreshold == 2
MinProductScore == 3
LongPageChars == 500
TextStrategyChars == 100
HybridStrategyChars == 20
MinRawTextChars == 100
CandidateChars == 100

\* ------------------------------------------------------------ text helpers
RECURSIVE SumSeq(_)
SumSeq(s) == IF s = <<>> THEN 0 ELSE Head(s) + SumSeq(Tail(s))

\* len(word) for the words of the vocabulary
WordLen(w) ==
    CASE w = "86-1234" -> 7
      [] w = "87-55" -> 5
      [] w = "...." -> 4
      [] w = "12" -> 2
      [] w = "7" -> 1
      [] w = "3" -> 1
      [] w \in {"index", "Index", "notes", "Model", "model", "YEARS", "years"} -> 5
      [] w \in {"warning", "fitment", "catalog"} -> 7
      [] w \in {"Toyota", "toyota"} -> 6
      [] w = "table of contents" -> 17
      [] w = "lorem94" -> 94
      [] w = "lorem494" -> 494
      [] w = "lorem499" -> 499
      [] OTHER -> 3

\* str.lower() on one word
Lower(w) ==
    CASE w = "Model" -> "model"
      [] w = "YEARS" -> "years"
      [] w = "Toyota" -> "toyota"
      [] w = "Index" -> "index"
      [] OTHER -> w

LowerLine(line) == [i \in 1..Len(line) |-> Lower(line[i])]
LowerText(text) == [i \in 1..Len(text) |-> LowerLine(text[i])]

\* len(line): the words and the single spaces between them
LineLen(line) ==
    IF line = <<>> THEN 0
    ELSE SumSeq([i \in 1..Len(line) |-> WordLen(line[i])]) + (Len(line) - 1)

\* len(text): the lines and the "\n" between them
TextLen(text) ==
    IF text = <<>> THEN 0
    ELSE SumSeq([i \in 1..Len(text) |-> LineLen(text[i])]) + (Len(text) - 1)

\* the blank lines at the start and at the end of a text
RECURSIVE DropLeadingBlank(_)
DropLeadingBlank(text) ==
    IF text # <<>> /\ Head(text) = <<>> THEN DropLeadingBlank(Tail(text)) ELSE text

RECURSIVE DropTrailingBlank(_)
DropTrailingBlank(text) ==
    IF text # <<>> /\ text[Len(text)] = <<>>
    THEN DropTrailingBlank(SubSeq(text, 1, Len(text) - 1))
    ELSE text

\* text.strip(): leading and trailing blank lines (newlines) are removed
Strip(text) == DropTrailingBlank(DropLeadingBlank(text))

StrippedLen(text) == TextLen(Strip(text))

\* "indicator in word", for the indicator lists of detect_product_data_pages
ProductHits(w) ==
    CASE w = "86-1234" -> {"86-"}
      [] w = "87-55" -> {"87-"}
      [] w = "model" -> {"model"}
      [] w = "years" -> {"years"}
      [] w = "toyota" -> {"toyota"}
      [] w = "fitment" -> {"fitment"}
      [] OTHER -> {}

IntroHits(w) ==
    CASE w = "index" -> {"index"}
      [] w = "warning" -> {"warning"}
      [] w = "notes" -> {"notes"}
      [] w = "table of contents" -> {"table of contents"}
      [] OTHER -> {}

WordsOf(text) == UNION {{text[i][j] : j \in 1..Len(text[i])} : i \in 1..Len(text)}

\* word.replace("-", "").isdigit()
IsDigitWord(w) == w \in {"86-1234", "87-55", "12", "7", "3"}

\* "..." in line
HasDotLeader(line) == \E j \in 1..Len(line) : line[j] = "...."

\* "86-" in line or "87-" in line
HasPartPrefix(line) ==
    \E j \in 1..Len(line) : ProductHits(line[j]) \cap {"86-", "87-"} # {}

\* line.split() yields the words; a phrase word splits into non-numeric words
NumericWords(line) == Cardinality({j \in 1..Len(line) : IsDigitWord(line[j])})

\* pdf_analyzer.py:295-307 without the part-prefix signal of lines 306-307
LineSignalsNoPrefix(line) ==
    IF line = <<>> THEN 0
    ELSE (IF HasDotLeader(line) THEN 1 ELSE 0)
       + (IF NumericWords(line) >= 3 THEN 1 ELSE 0)

\* pdf_analyzer.py:295-307: the signals one non-blank line adds to
\* tabular_indicators
LineSignals(line) ==
    IF line = <<>> THEN 0
    ELSE (IF HasDotLeader(line) THEN 1 ELSE 0)
       + (IF NumericWords(line) >= 3 THEN 1 ELSE 0)
       + (IF HasPartPrefix(line) THEN 1 ELSE 0)

TabularIndicators(text) == SumSeq([i \in 1..Len(text) |-> LineSignals(text[i])])

DetectTabularStructure(text) == TabularIndicators(text) >= TabularThreshold

PartNumberLines(text) == Cardinality({i \in 1..Len(text) : HasPartPrefix(text[i])})

HasPartNumbers(text) == PartNumberLines(text) > PartLineThreshold

ProductScore(text) == Cardinality(UNION {ProductHits(w) : w \in WordsOf(text)})

IntroScore(text) == Cardinality(UNION {IntroHits(w) : w \in WordsOf(text)})

\* the decision of detect_product_data_pages with the intro rule tried first
ClassifyIntroFirst(raw) ==
    LET text == LowerText(raw)
        ps == ProductScore(text)
        is == IntroScore(text)
    IN  IF is > ps
        THEN [is_product_page |-> FALSE, confidence |-> "high"]
        ELSE IF DetectTabularStructure(text) /\ HasPartNumbers(text)
        THEN [is_product_page |-> TRUE, confidence |-> "high"]
        ELSE IF ps > is /\ ps >= MinProductScore
        THEN [is_product_page |-> TRUE, confidence |-> "medium"]
        ELSE [is_product_page |-> StrippedLen(text) > LongPageChars, confidence |-> "low"]

\* the decision with the length rule answering "product" for every page
ClassifyLengthRuleTrue(raw) ==
    LET text == LowerText(raw)
        ps == ProductScore(text)
        is == IntroScore(text)
    IN  IF DetectTabularStructure(text) /\ HasPartNumbers(text)
        THEN [is_product_page |-> TRUE, confidence |-> "high"]
        ELSE IF ps > is /\ ps >= MinProductScore
        THEN [is_product_page |-> TRUE, confidence |-> "medium"]
        ELSE IF is > ps
        THEN [is_product_page |-> FALSE, confidence |-> "high"]
        ELSE [is_product_page |-> TRUE, confidence |-> "low"]

\* the decision with the intro rule dropped
ClassifyNoIntroRule(raw) ==
    LET text == LowerText(raw)
        ps == ProductScore(text)
        is == IntroScore(text)
    IN  IF DetectTabularStructure(text) /\ HasPartNumbers(text)
        THEN [is_product_page |-> TRUE, confidence |-> "high"]
        ELSE IF ps > is /\ ps >= MinProductScore
        THEN [is_product_page |-> TRUE, confidence |-> "medium"]
        ELSE [is_product_page |-> StrippedLen(text) > LongPageChars, confidence |-> "low"]

\* the decision with the length rule measuring the unstripped text
ClassifyRawLength(raw) ==
    LET text == LowerText(raw)
        ps == ProductScore(text)
        is == IntroScore(text)
    IN  IF DetectTabularStructure(text) /\ HasPartNumbers(text)
        THEN [is_product_page |-> TRUE, confidence |-> "high"]
        ELSE IF ps > is /\ ps >= MinProductScore
        THEN [is_product_page |-> TRUE, confidence |-> "medium"]
        ELSE IF is > ps
        THEN [is_product_page |-> FALSE, confidence |-> "high"]
        ELSE [is_product_page |-> TextLen(text) > LongPageChars, confidence |-> "low"]

\* one page of detect_product_data_pages: the if/elif chain on the lowered text
Classify(raw) ==
    LET text == LowerText(raw)
        ps == ProductScore(text)
        is == IntroScore(text)
    IN  IF DetectTabularStructure(text) /\ HasPartNumbers(text)
        THEN [is_product_page |-> TRUE, confidence |-> "high"]
        ELSE IF ps > is /\ ps >= MinProductScore
        THEN [is_product_page |-> TRUE, confidence |-> "medium"]
        ELSE IF is > ps
        THEN [is_product_page |-> FALSE, confidence |-> "high"]
        ELSE [is_product_page |-> StrippedLen(text) > LongPageChars, confidence |-> "low"]

\* one page of get_extraction_strategy measured on the unstripped text
StrategyRawLength(raw) ==
    LET n == TextLen(raw)
    IN  IF n > TextStrategyChars THEN [method |-> "text", confidence |-> "high"]
        ELSE IF n > HybridStrategyChars THEN [method |-> "hybrid", confidence |-> "medium"]
        ELSE [method |-> "vision", confidence |-> "high"]

\* one page of get_extraction_strategy: thresholds on len(raw_text.strip())
Strategy(raw) ==
    LET n == StrippedLen(raw)
    IN  IF n > TextStrategyChars THEN [method |-> "text", confidence |-> "high"]
        ELSE IF n > HybridStrategyChars THEN [method |-> "hybrid", confidence |-> "medium"]
        ELSE [method |-> "vision", confidence |-> "high"]

\* ------------------------------------------------------ response parsing
(***************************************************************************)
(* An LLM reply is a sequence of tokens: "[" "]" "{" "}" "," are the JSON  *)
(* punctuation, "n" a number literal, "k" a string key with its colon,     *)
(* "p" a word of prose, "FENCEJSON" and "FENCE" the code-fence markers     *)
(* (three backquotes with and without the json tag) and "\n" a newline;    *)
(* the tokens of a reply are separated by single spaces.  A                *)
(* parsed value is its canonical token sequence; None is the Python None.  *)
(***************************************************************************)
None == <<"None">>

IsWs(t) == t = "\n"

RECURSIVE SkipWs(_, _)
SkipWs(s, i) == IF i <= Len(s) /\ IsWs(s[i]) THEN SkipWs(s, i + 1) ELSE i

ParseFail == [ok |-> FALSE, next |-> 0, val |-> <<>>]

\* json.loads: recursive descent over the tokens; a repeated key keeps the
\* last value, as a Python dict does
RECURSIVE ParseValue(_, _), ParseElems(_, _, _), ParseMembers(_, _)
ParseValue(s, i) ==
    LET j == SkipWs(s, i)
    IN  IF j > Len(s) THEN ParseFail
        ELSE IF s[j] = "n" THEN [ok |-> TRUE, next |-> j + 1, val |-> <<"n">>]
        ELSE IF s[j] = "["
        THEN LET k == SkipWs(s, j + 1)
             IN  IF k <= Len(s) /\ s[k] = "]"
                 THEN [ok |-> TRUE, next |-> k + 1, val |-> <<"[", "]">>]
                 ELSE ParseElems(s, j + 1, <<"[">>)
        ELSE IF s[j] = "{"
        THEN LET k == SkipWs(s, j + 1)
             IN  IF k <= Len(s) /\ s[k] = "}"
                 THEN [ok |-> TRUE, next |-> k + 1, val |-> <<"{", "}">>]
                 ELSE ParseMembers(s, j + 1)
        ELSE ParseFail

ParseElems(s, i, acc) ==
    LET r == ParseValue(s, i)
    IN  IF ~r.ok THEN ParseFail
        ELSE LET k == SkipWs(s, r.next)
             IN  IF k > Len(s) THEN ParseFail
                 ELSE IF s[k] = "," THEN ParseElems(s, k + 1, acc \o r.val \o <<",">>)
                 ELSE IF s[k] = "]"
                 THEN [ok |-> TRUE, next |-> k + 1, val |-> acc \o r.val \o <<"]">>]
                 ELSE ParseFail

ParseMembers(s, i) ==
    LET j == SkipWs(s, i)
    IN  IF j > Len(s) \/ s[j] # "k" THEN ParseFail
        ELSE LET r == ParseValue(s, j + 1)
             IN  IF ~r.ok THEN ParseFail
                 ELSE LET k == SkipWs(s, r.next)
                      IN  IF k > Len(s) THEN ParseFail
                          ELSE IF s[k] = "," THEN ParseMembers(s, k + 1)
                          ELSE IF s[k] = "}"
                          THEN [ok |-> TRUE, next |-> k + 1,
                                val |-> <<"{", "k">> \o r.val \o <<"}">>]
                          ELSE ParseFail

\* json.loads(s), with the exception it raises mapped to None by the caller's
\* except clause
JsonLoads(s) ==
    LET r == ParseValue(s, 1)
    IN  IF r.ok /\ SkipWs(s, r.next) > Len(s) THEN r.val ELSE None

\* str.strip() on a reply
RECURSIVE LStripTokens(_)
LStripTokens(s) == IF s # <<>> /\ IsWs(Head(s)) THEN LStripTokens(Tail(s)) ELSE s

RECURSIVE RStripTokens(_)
RStripTokens(s) ==
    IF s # <<>> /\ IsWs(s[Len(s)]) THEN RStripTokens(SubSeq(s, 1, Len(s) - 1)) ELSE s

StripTokens(s) == RStripTokens(LStripTokens(s))

\* s.replace("FENCEJSON", "").replace("FENCE", "")
RemoveFences(s) == SelectSeq(s, LAMBDA t : t \notin {"FENCEJSON", "FENCE"})

IndicesOf(s, t) == {i \in 1..Len(s) : s[i] = t}

MinOf(S) == CHOOSE x \in S : \A y \in S : x <= y
MaxOf(S) == CHOOSE x \in S : \A y \in S : x >= y

\* lines[1:] of s.split("\n"), joined again
DropFirstLine(s) ==
    IF IndicesOf(s, "\n") = {} THEN <<>>
    ELSE SubSeq(s, MinOf(IndicesOf(s, "\n")) + 1, Len(s))

\* lines[:-1] when the last line, stripped, is the closing fence
DropClosingFence(s) ==
    IF s = <<>> THEN s
    ELSE IF IndicesOf(s, "\n") = {}
    THEN (IF s = <<"FENCE">> THEN <<>> ELSE s)
    ELSE LET last == MaxOf(IndicesOf(s, "\n"))
         IN  IF SubSeq(s, last + 1, Len(s)) = <<"FENCE">>
             THEN SubSeq(s, 1, last - 1)
             ELSE s

\* lines 89-98: the fence handling
CleanReply(extracted_text) ==
    LET cleaned == StripTokens(extracted_text)
    IN  IF cleaned # <<>> /\ Head(cleaned) = "FENCEJSON"
        THEN StripTokens(RemoveFences(cleaned))
        ELSE IF cleaned # <<>> /\ Head(cleaned) = "FENCE"
        THEN StripTokens(DropClosingFence(DropFirstLine(cleaned)))
        ELSE cleaned

\* re.search of the lazy bracket pattern with DOTALL: from the first opening
\* bracket to the first closing bracket after it; <<>> when nothing matches
LazyMatch(s, open, close) ==
    IF IndicesOf(s, open) = {} THEN <<>>
    ELSE LET i == MinOf(IndicesOf(s, open))
             after == {j \in IndicesOf(s, close) : j > i}
         IN  IF after = {} THEN <<>> ELSE SubSeq(s, i, MinOf(after))

\* validate_extracted_data: array pattern, then object pattern, then the
\* whole cleaned reply; every exception gives None
ValidateExtractedData(extracted_text) ==
    LET cleaned == CleanReply(extracted_text)
        arr == LazyMatch(cleaned, "[", "]")
        obj == LazyMatch(cleaned, "{", "}")
    IN  IF arr # <<>> THEN JsonLoads(arr)
        ELSE IF obj # <<>> THEN JsonLoads(obj)
        ELSE JsonLoads(cleaned)

\* isinstance(value, list) and value
IsNonEmptyList(v) == v # None /\ Head(v) = "[" /\ Len(v) > 2

\* ------------------------------------------------------------------ state
VARIABLES
    pageText,   \* classifier input: the raw text of one page
    decision,   \* its entry in detect_product_data_pages' result
    strategy,   \* its entry in get_extraction_strategy's result
    reply,      \* parser input: a raw LLM response
    parsed,     \* validate_extracted_data's return value for it
    doc,        \* the PDF: one sample-text name per page
    cfg,        \* the keyword arguments of the entry point
    mode,       \* "batch" (process_document) or "streaming"
    pc,         \* position inside the entry point
    pdfDoc,     \* analyzer.pdf_doc: "unset", "open", or "none" after a failed load
    extractorMade, \* an AIDataExtractor has been constructed
    ctorCount,  \* AdvancedDocumentAI constructor calls so far in this run
    advAI,      \* extract_hybrid_data's advanced_ai is an instance (not None)
    sharedAI,   \* streaming's shared_advanced_ai is an instance (not None)
    images,     \* pages whose page_N.png exists in temp_dir
    pagesData,  \* analyzer.pages_data: the page numbers extracted
    analysis,   \* product_pages_analysis: one decision per page of pages_data
    toProcess,  \* extract_hybrid_data's pages_to_process (page numbers)
    idx,        \* index into toProcess of the page being handled
    visited,    \* the pages the per-page loop of extract_hybrid_data has taken up
    stepsRun,   \* fallback steps attempted for the page being handled
    lastResp,   \* kind of the LLM response the latest step received
    pageItems,  \* extract_hybrid_data's extracted_items for that page
    allItems,   \* extract_hybrid_data's all_items
    streamItems, \* process_document_streaming's all_items
    pageNo,     \* the page iter_pages yielded last
    curPath,    \* that page's page_data carries temp_image_path
    exc,        \* the exception that left the entry point, or "none"
    result,     \* the dictionary the entry point returned
    paired,     \* both entry points are called on the same inputs
    script,     \* paired calls: the collaborator outcomes seen so far
    first       \* paired calls: how the first call ended

clsVars == <<pageText, decision, strategy>>
parseVars == <<reply, parsed>>
runVars == <<mode, pc, pdfDoc, visited, extractorMade, ctorCount, advAI, sharedAI, images, pagesData,
             analysis, toProcess, idx, stepsRun, lastResp, pageItems, allItems,
             streamItems, pageNo, curPath, exc, result>>
pipeVars == <<doc, cfg, runVars, paired, script, first>>
vars == <<clsVars, parseVars, pipeVars>>

NoDecision == [is_product_page |-> FALSE, confidence |-> "unset"]
NoStrategy == [method |-> "unset", confidence |-> "unset"]
Unparsed == <<"unset">>

\* ------------------------------------------------- inputs of the classifier
LineSamples ==
    { <<>>,
      <<"86-1234", "....">>,
      <<"87-55", "12", "7">>,
      <<"12", "7", "3">>,
      <<"Index", "warning">>,
      <<"notes">>,
      <<"Model", "YEARS", "Toyota">>,
      <<"86-1234", "....", "index", "notes">>,
      <<"lorem94">>,
      <<"lorem494">>,
      <<"lorem499">> }

RECURSIVE SeqsUpTo(_, _)
SeqsUpTo(S, n) ==
    IF n = 0 THEN {<<>>}
    ELSE LET shorter == SeqsUpTo(S, n - 1)
         IN  shorter \cup {Append(t, x) : t \in shorter, x \in S}

Texts == SeqsUpTo(LineSamples, MaxLines)

\* ----------------------------------------------------- inputs of the parser
CoreAlphabet == {"[", "]", "{", "}", "k", "n", ","}

SampleCores ==
    { <<"[", "{", "k", "n", "}", "]">>,
      <<"{", "k", "[", "n", "]", "}">>,
      <<"[", "{", "k", "n", "}", ",", "{", "k", "n", "}", "]">> }

Cores == SeqsUpTo(CoreAlphabet, MaxCore) \cup SampleCores

Wrappers == {"bare", "fenced-json", "fenced", "prose", "padded"}

Wrap(w, core) ==
    CASE w = "bare" -> core
      [] w = "fenced-json" -> <<"FENCEJSON", "\n">> \o core \o <<"\n", "FENCE">>
      [] w = "fenced" -> <<"FENCE", "\n">> \o core \o <<"\n", "FENCE">>
      [] w = "prose" -> <<"p", "p">> \o core \o <<"p">>
      [] w = "padded" -> <<"\n">> \o core \o <<"\n", "\n">>

Replies == {Wrap(w, core) : w \in Wrappers, core \in Cores}

\* ---------------------------------------------- the classifier, applied
ClsIdle ==
    /\ pageText = <<>>
    /\ decision = NoDecision
    /\ strategy = NoStrategy

ParseIdle ==
    /\ reply = <<>>
    /\ parsed = Unparsed

\* detect_product_data_pages on a document holding the one page
DetectProductDataPages ==
    /\ decision = NoDecision
    /\ decision' = Classify(pageText)
    /\ UNCHANGED <<pageText, strategy, parseVars, pipeVars>>

\* get_extraction_strategy on a document holding the one page
GetExtractionStrategy ==
    /\ strategy = NoStrategy
    /\ strategy' = Strategy(pageText)
    /\ UNCHANGED <<pageText, decision, parseVars, pipeVars>>

\* validate_extracted_data on the reply
Validate ==
    /\ parsed = Unparsed
    /\ parsed' = ValidateExtractedData(reply)
    /\ UNCHANGED <<reply, clsVars, pipeVars>>

\* ---------------------------------------------------- inputs of a run
SampleNames == {"product", "toc", "short", "fitment"}

\* the page texts of the documents: a parts table with more than 500
\* characters, a table of contents, a 10-character page and a short
\* fitment line
SampleText(name) ==
    CASE name = "product" ->
            << <<"86-1234", "....">>, <<"86-1234", "....">>, <<"87-55", "12", "7">>,
               <<"fitment", "lorem494">>, <<>> >>
      [] name = "toc" -> << <<"table of contents">>, <<"Index", "warning">>, <<>> >>
      [] name = "short" -> << <<"catalog", "12">> >>
      [] name = "fitment" -> << <<"Model", "YEARS", "Toyota">>, <<>> >>

Docs(n) == SeqsUpTo(SampleNames, n)

\* max_pages: 0 stands for None (both are falsy at pdf_analyzer.py:137)
MaxPagesArgs == {0, 1, 2}

Configs ==
    [use_advanced_ai : BOOLEAN, minimize_memory : BOOLEAN, max_pages : MaxPagesArgs,
     prompt : BOOLEAN, llm : BOOLEAN]

NoResult == [kind |-> "none", success |-> FALSE, error |-> "", has_items |-> FALSE,
             items |-> <<>>, pages |-> 0]

NoFirst == [mode |-> "none", exc |-> "none", result |-> NoResult]

RunStart(m) ==
    /\ mode = m
    /\ pc = "start"
    /\ pdfDoc = "unset"
    /\ visited = <<>>
    /\ extractorMade = FALSE
    /\ ctorCount = 0
    /\ advAI = FALSE
    /\ sharedAI = FALSE
    /\ images = {}
    /\ pagesData = <<>>
    /\ analysis = <<>>
    /\ toProcess = <<>>
    /\ idx = 0
    /\ stepsRun = {}
    /\ lastResp = "none"
    /\ pageItems = <<>>
    /\ allItems = <<>>
    /\ streamItems = <<>>
    /\ pageNo = 0
    /\ curPath = FALSE
    /\ exc = "none"
    /\ result = NoResult

PipeIdle ==
    /\ doc = <<>>
    /\ cfg = [use_advanced_ai |-> FALSE, minimize_memory |-> FALSE, max_pages |-> 0,
              prompt |-> FALSE, llm |-> FALSE]
    /\ RunStart("idle")
    /\ paired = FALSE
    /\ script = {}
    /\ first = NoFirst

\* ------------------------------------------------ collaborator outcomes
\* In a paired session the outcome a collaborator gave for a key is replayed
\* to the second call; otherwise every outcome is possible at every call.
Recorded(key) == {e.out : e \in {x \in script : x.key = key}}

Choices(key, options) ==
    IF paired /\ Recorded(key) # {} THEN Recorded(key) ELSE options

Noted(key, out) == IF paired THEN {[key |-> key, out |-> out]} ELSE {}

RespKinds == {"raise", "empty", "prose", "object", "emptylist", "nested", "items"}

\* the text the chat-completion service returns for each kind of response
LLMReply(kind) ==
    CASE kind = "prose" -> <<"p", "p">>
      [] kind = "object" -> <<"p", "{", "k", "n", "}">>
      [] kind = "emptylist" -> <<"[", "]">>
      [] kind = "nested" -> <<"[", "{", "k", "[", "n", "]", "}", "]">>
      [] kind = "items" ->
            <<"FENCEJSON", "\n", "[", "{", "k", "n", "}", ",", "{", "k", "n", "}", "]",
              "\n", "FENCE">>
      [] OTHER -> <<>>

\* _extract_with_openai / _extract_with_gemini and their image twins: the
\* service's text, None (here <<>>, as falsy as "") when the call raises
ServiceCall(kind) == IF kind = "raise" THEN <<>> ELSE LLMReply(kind)

\* ai_extraction.py:49-51 and 116-117 with the prompt check left out
ContactedWithoutPrompt == cfg.llm

\* the service is reached only with a prompt and a configured service
Contacted == cfg.prompt /\ cfg.llm

\* extract_structured_data and extract_from_image: the raw response
ExtractRaw(kind) ==
    IF ~cfg.prompt THEN <<>>
    ELSE IF cfg.llm THEN ServiceCall(kind)
    ELSE <<>>

\* the elements of a parsed non-empty list, counted at bracket depth 1
RECURSIVE CountElems(_, _, _)
CountElems(v, i, depth) ==
    IF i > Len(v) THEN 1
    ELSE IF v[i] \in {"[", "{"} THEN CountElems(v, i + 1, depth + 1)
    ELSE IF v[i] \in {"]", "}"} THEN CountElems(v, i + 1, depth - 1)
    ELSE IF v[i] = "," /\ depth = 1 THEN 1 + CountElems(v, i + 1, depth)
    ELSE CountElems(v, i + 1, depth)

\* lines 208-211 with the isinstance check left out: any parsed value extends
\* the page's items
StepItemsUnchecked(page, step, raw) ==
    LET data == IF raw # <<>> THEN ValidateExtractedData(raw) ELSE None
    IN  IF data # None /\ data # <<"[", "]">>
        THEN [i \in 1..CountElems(data, 1, 0) |-> <<page, step, i>>]
        ELSE <<>>

\* the items one step adds: the elements of the parsed value when it is a
\* non-empty list, each tagged with the page and the step that produced it
StepItems(page, step, raw) ==
    LET data == IF raw # <<>> THEN ValidateExtractedData(raw) ELSE None
    IN  IF IsNonEmptyList(data)
        THEN [i \in 1..CountElems(data, 1, 0) |-> <<page, step, i>>]
        ELSE <<>>

RespOptions == IF Contacted THEN RespKinds ELSE {"uncalled"}

ImageExists(page) == page \in images

RawText(page) == SampleText(doc[page])

\* ------------------------------------------------- extract_hybrid_data
HybridParams ==
    {"pages_data", "temp_dir", "product_pages_analysis", "catalog_type",
     "use_advanced_ai", "extraction_prompt"}

BatchKwargs ==
    {"pages_data", "temp_dir", "product_pages_analysis", "catalog_type",
     "use_advanced_ai", "extraction_prompt"}

StreamingKwargs ==
    {"pages_data", "temp_dir", "product_pages_analysis", "catalog_type",
     "use_advanced_ai", "extraction_prompt", "shared_advanced_ai"}

\* Python binds keyword arguments to parameters; an unknown keyword is a
\* TypeError raised before the body runs
Binds(kwargs) == kwargs \subseteq HybridParams

\* lines 185-189: the working set with no filter
PagesToProcessNoFilter(pages, pageAnalysis) == pages

\* lines 185-189: the working set
PagesToProcess(pages, pageAnalysis) ==
    IF pageAnalysis # <<>>
    THEN SelectSeq(pages, LAMBDA p :
            \E i \in 1..Len(pageAnalysis) :
                pageAnalysis[i].page = p /\ pageAnalysis[i].is_product_page)
    ELSE pages

\* lines 175-191: entry into extract_hybrid_data with its arguments bound
EnterHybrid(pages, pageAnalysis, useAdvancedAI) ==
    /\ \E ctor \in Choices(<<"ctor", 0>>, {"ok", "raise"}) :
          /\ advAI' = (useAdvancedAI /\ ctor = "ok")
          /\ ctorCount' = IF useAdvancedAI THEN ctorCount + 1 ELSE ctorCount
          /\ script' = script \cup (IF useAdvancedAI THEN Noted(<<"ctor", 0>>, ctor) ELSE {})
    /\ allItems' = <<>>
    /\ toProcess' = PagesToProcess(pages, pageAnalysis)
    /\ idx' = 1
    /\ pc' = IF PagesToProcess(pages, pageAnalysis) = <<>> THEN "hybrid_return" ELSE "mm"

CurPage == toProcess[idx]

\* lines 193-213: a new page, and the multimodal step (OCR text combined with
\* the raw text, then the LLM); every exception inside is swallowed
HybridMultimodal ==
    /\ pc = "mm"
    /\ IF advAI /\ ImageExists(CurPage)
       THEN \E ocr \in Choices(<<"ocr", CurPage>>, {"ok", "raise"}) :
            IF ocr = "ok"
            THEN \E r \in Choices(<<"mm", CurPage>>, RespOptions) :
                    /\ pageItems' = StepItems(CurPage, "mm", ExtractRaw(r))
                    /\ lastResp' = r
                    /\ stepsRun' = {"ocr", "mm"}
                    /\ script' = script \cup Noted(<<"ocr", CurPage>>, ocr)
                                        \cup Noted(<<"mm", CurPage>>, r)
            ELSE /\ pageItems' = <<>>
                 /\ lastResp' = "none"
                 /\ stepsRun' = {"ocr"}
                 /\ script' = script \cup Noted(<<"ocr", CurPage>>, ocr)
       ELSE /\ pageItems' = <<>>
            /\ lastResp' = "none"
            /\ stepsRun' = {}
            /\ UNCHANGED script
    /\ visited' = Append(visited, CurPage)
    /\ pc' = "textonly"
    /\ UNCHANGED <<clsVars, parseVars, pdfDoc, doc, cfg, mode, extractorMade, ctorCount, advAI,
                   sharedAI, images, pagesData, analysis, toProcess, idx, allItems,
                   streamItems, pageNo, curPath, exc, result, paired, first>>

\* the guard of line 215 with the check on extracted_items left out
TextStepDueAlways(page) == StrippedLen(RawText(page)) > MinRawTextChars

\* line 215: nothing extracted yet and more than 100 characters of raw text
TextStepDue(page) == pageItems = <<>> /\ StrippedLen(RawText(page)) > MinRawTextChars

\* lines 215-224: the raw-text-only step
HybridTextOnly ==
    /\ pc = "textonly"
    /\ IF TextStepDue(CurPage)
       THEN \E r \in Choices(<<"text", CurPage>>, RespOptions) :
               /\ pageItems' = pageItems \o StepItems(CurPage, "text", ExtractRaw(r))
               /\ lastResp' = r
               /\ stepsRun' = stepsRun \cup {"text"}
               /\ script' = script \cup Noted(<<"text", CurPage>>, r)
       ELSE UNCHANGED <<pageItems, lastResp, stepsRun, script>>
    /\ pc' = "vision"
    /\ UNCHANGED <<clsVars, parseVars, pdfDoc, visited, doc, cfg, mode, extractorMade, ctorCount, advAI,
                   sharedAI, images, pagesData, analysis, toProcess, idx, allItems,
                   streamItems, pageNo, curPath, exc, result, paired, first>>

\* line 226: nothing extracted yet and the page image exists
VisionStepDue(page) == pageItems = <<>> /\ ImageExists(page)

\* lines 226-234 with the page's items put in front of all_items
HybridVisionOnlyPrepends ==
    /\ pc = "vision"
    /\ IF VisionStepDue(CurPage)
       THEN \E r \in Choices(<<"vision", CurPage>>, RespOptions) :
               /\ pageItems' = pageItems \o StepItems(CurPage, "vision", ExtractRaw(r))
               /\ lastResp' = r
               /\ stepsRun' = stepsRun \cup {"vision"}
               /\ script' = script \cup Noted(<<"vision", CurPage>>, r)
       ELSE UNCHANGED <<pageItems, lastResp, stepsRun, script>>
    /\ allItems' = pageItems' \o allItems
    /\ idx' = idx + 1
    /\ pc' = IF idx < Len(toProcess) THEN "mm" ELSE "hybrid_return"
    /\ UNCHANGED <<clsVars, parseVars, pdfDoc, visited, doc, cfg, mode, extractorMade, ctorCount, advAI,
                   sharedAI, images, pagesData, analysis, toProcess,
                   streamItems, pageNo, curPath, exc, result, paired, first>>

\* lines 226-234: the vision-only step, then the page's items join all_items
\* and the loop moves on
HybridVisionOnly ==
    /\ pc = "vision"
    /\ IF VisionStepDue(CurPage)
       THEN \E r \in Choices(<<"vision", CurPage>>, RespOptions) :
               /\ pageItems' = pageItems \o StepItems(CurPage, "vision", ExtractRaw(r))
               /\ lastResp' = r
               /\ stepsRun' = stepsRun \cup {"vision"}
               /\ script' = script \cup Noted(<<"vision", CurPage>>, r)
       ELSE UNCHANGED <<pageItems, lastResp, stepsRun, script>>
    /\ allItems' = allItems \o pageItems'
    /\ idx' = idx + 1
    /\ pc' = IF idx < Len(toProcess) THEN "mm" ELSE "hybrid_return"
    /\ UNCHANGED <<clsVars, parseVars, pdfDoc, visited, doc, cfg, mode, extractorMade, ctorCount, advAI,
                   sharedAI, images, pagesData, analysis, toProcess,
                   streamItems, pageNo, curPath, exc, result, paired, first>>

\* line 236 and the caller's next lines: all_items goes back to the entry
\* point.  process_document packs its result (pipeline.py:56-61);
\* process_document_streaming extends its own list and asks for the next
\* page (pipeline.py:154-164).
HybridReturn ==
    /\ pc = "hybrid_return"
    /\ IF mode = "batch"
       THEN /\ result' = [kind |-> "returned", success |-> TRUE, error |-> "",
                          has_items |-> TRUE, items |-> allItems,
                          pages |-> Len(pagesData)]
            /\ pc' = "done"
            /\ UNCHANGED streamItems
       ELSE /\ streamItems' = streamItems \o allItems
            /\ pc' = "iter"
            /\ UNCHANGED result
    /\ UNCHANGED <<clsVars, parseVars, pdfDoc, visited, doc, cfg, mode, extractorMade, ctorCount, advAI,
                   sharedAI, images, pagesData, analysis, toProcess, idx, stepsRun,
                   lastResp, pageItems, allItems, pageNo, curPath, exc, paired,
                   script, first>>

\* ---------------------------------------------------- process_document
FailedLoad == [kind |-> "returned", success |-> FALSE, error |-> "Failed to load PDF",
               has_items |-> FALSE, items |-> <<>>, pages |-> 0]

\* lines 29-31 with the early return missing
BatchLoadFailsContinues ==
    /\ mode = "batch" /\ pc = "start"
    /\ "fail" \in Choices(<<"load", 0>>, {"ok", "fail"})
    /\ pdfDoc' = "none"
    /\ script' = script \cup Noted(<<"load", 0>>, "fail")
    /\ pc' = "images"
    /\ UNCHANGED <<clsVars, parseVars, visited, doc, cfg, mode, extractorMade, ctorCount, advAI,
                   sharedAI, images, pagesData, analysis, toProcess, idx, stepsRun,
                   lastResp, pageItems, allItems, streamItems, pageNo, curPath, exc,
                   result, paired, first>>

\* lines 29-31: load_pdf fails and the failure result is returned
BatchLoadFails ==
    /\ mode = "batch" /\ pc = "start"
    /\ "fail" \in Choices(<<"load", 0>>, {"ok", "fail"})
    /\ pdfDoc' = "none"
    /\ script' = script \cup Noted(<<"load", 0>>, "fail")
    /\ result' = FailedLoad
    /\ pc' = "done"
    /\ UNCHANGED <<clsVars, parseVars, visited, doc, cfg, mode, extractorMade, ctorCount, advAI,
                   sharedAI, images, pagesData, analysis, toProcess, idx, stepsRun,
                   lastResp, pageItems, allItems, streamItems, pageNo, curPath, exc,
                   paired, first>>

\* lines 29-36: load_pdf succeeds; extract_text_by_page reads every page
BatchLoad ==
    /\ mode = "batch" /\ pc = "start"
    /\ "ok" \in Choices(<<"load", 0>>, {"ok", "fail"})
    /\ pdfDoc' = "open"
    /\ script' = script \cup Noted(<<"load", 0>>, "ok")
    /\ pagesData' = [i \in 1..Len(doc) |-> i]
    /\ pc' = "images"
    /\ UNCHANGED <<clsVars, parseVars, visited, doc, cfg, mode, extractorMade, ctorCount, advAI,
                   sharedAI, images, analysis, toProcess, idx, stepsRun,
                   lastResp, pageItems, allItems, streamItems, pageNo, curPath, exc,
                   result, paired, first>>

\* pdf_analyzer.py:137: how many pages detect_tables_and_images renders
PagesToRender(max_pages, total) ==
    IF max_pages # 0 /\ max_pages < total
    THEN (IF max_pages <= total THEN max_pages ELSE total)
    ELSE total

RenderAllowed(page, out) == out \in Choices(<<"render", page>>, {"ok", "raise"})

\* lines 38-40: with minimize_memory off, detect_tables_and_images renders an
\* image for each of its pages; here every rendering succeeds
BatchImages ==
    /\ mode = "batch" /\ pc = "images"
    /\ IF ~cfg.minimize_memory
       THEN LET k == IF pdfDoc = "open" THEN PagesToRender(cfg.max_pages, Len(doc)) ELSE 0
            IN  /\ \A p \in 1..k : RenderAllowed(p, "ok")
                /\ images' = images \cup (1..k)
                /\ script' = script \cup UNION {Noted(<<"render", p>>, "ok") : p \in 1..k}
       ELSE UNCHANGED <<images, script>>
    /\ pc' = "classify"
    /\ UNCHANGED <<clsVars, parseVars, pdfDoc, visited, doc, cfg, mode, extractorMade, ctorCount, advAI,
                   sharedAI, pagesData, analysis, toProcess, idx, stepsRun,
                   lastResp, pageItems, allItems, streamItems, pageNo, curPath, exc,
                   result, paired, first>>

\* lines 38-40: get_pixmap or save raises for page f inside
\* detect_tables_and_images (pdf_analyzer.py:139-150); nothing catches it
BatchImagesRaises ==
    /\ mode = "batch" /\ pc = "images"
    /\ ~cfg.minimize_memory
    /\ pdfDoc = "open"
    /\ \E f \in 1..PagesToRender(cfg.max_pages, Len(doc)) :
          /\ \A p \in 1..(f - 1) : RenderAllowed(p, "ok")
          /\ RenderAllowed(f, "raise")
          /\ images' = images \cup (1..(f - 1))
          /\ script' = script \cup UNION {Noted(<<"render", p>>, "ok") : p \in 1..(f - 1)}
                              \cup Noted(<<"render", f>>, "raise")
    /\ exc' = "render"
    /\ pc' = "raised"
    /\ UNCHANGED <<clsVars, parseVars, pdfDoc, visited, doc, cfg, mode, extractorMade, ctorCount, advAI,
                   sharedAI, pagesData, analysis, toProcess, idx, stepsRun,
                   lastResp, pageItems, allItems, streamItems, pageNo, curPath,
                   result, paired, first>>

\* the loop of pdf_analyzer.py:210-286 taking only the first page of a
\* document of several pages
ProductPagesAnalysisFirstOnly(pages) ==
    [i \in 1..(IF Len(pages) > 1 THEN 1 ELSE Len(pages)) |->
        [page |-> pages[i],
         is_product_page |-> Classify(RawText(pages[i])).is_product_page,
         confidence |-> Classify(RawText(pages[i])).confidence]]

\* pdf_analyzer.py:204-288 over pages_data
ProductPagesAnalysis(pages) ==
    [i \in 1..Len(pages) |->
        [page |-> pages[i],
         is_product_page |-> Classify(RawText(pages[i])).is_product_page,
         confidence |-> Classify(RawText(pages[i])).confidence]]

\* lines 42-43: detect_product_data_pages classifies every page of pages_data
BatchClassify ==
    /\ mode = "batch" /\ pc = "classify"
    /\ analysis' = ProductPagesAnalysis(pagesData)
    /\ pc' = "extract"
    /\ UNCHANGED <<clsVars, parseVars, pdfDoc, visited, doc, cfg, mode, extractorMade, ctorCount, advAI,
                   sharedAI, images, pagesData, toProcess, idx, stepsRun,
                   lastResp, pageItems, allItems, streamItems, pageNo, curPath, exc,
                   result, paired, script, first>>

\* lines 45-54: the extractor is built and extract_hybrid_data is called
BatchExtract ==
    /\ mode = "batch" /\ pc = "extract"
    /\ extractorMade' = TRUE
    /\ IF Binds(BatchKwargs)
       THEN /\ EnterHybrid(pagesData, analysis,
                           cfg.use_advanced_ai /\ ~cfg.minimize_memory)
            /\ UNCHANGED exc
       ELSE /\ exc' = "TypeError"
            /\ pc' = "raised"
            /\ UNCHANGED <<advAI, ctorCount, script, allItems, toProcess, idx>>
    /\ UNCHANGED <<clsVars, parseVars, pdfDoc, visited, doc, cfg, mode, sharedAI, images, pagesData,
                   analysis, stepsRun, lastResp, pageItems, streamItems, pageNo,
                   curPath, result, paired, first>>

\* ------------------------------------------ process_document_streaming
\* lines 81-83: load_pdf fails and the failure result is returned
StreamLoadFails ==
    /\ mode = "streaming" /\ pc = "start"
    /\ "fail" \in Choices(<<"load", 0>>, {"ok", "fail"})
    /\ pdfDoc' = "none"
    /\ script' = script \cup Noted(<<"load", 0>>, "fail")
    /\ result' = FailedLoad
    /\ pc' = "done"
    /\ UNCHANGED <<clsVars, parseVars, visited, doc, cfg, mode, extractorMade, ctorCount, advAI,
                   sharedAI, images, pagesData, analysis, toProcess, idx, stepsRun,
                   lastResp, pageItems, allItems, streamItems, pageNo, curPath, exc,
                   paired, first>>

\* lines 81-100: load_pdf succeeds, the extractor is built, and the shared
\* AdvancedDocumentAI is constructed when use_advanced_ai and not
\* minimize_memory (a constructor that raises leaves None)
StreamLoad ==
    /\ mode = "streaming" /\ pc = "start"
    /\ "ok" \in Choices(<<"load", 0>>, {"ok", "fail"})
    /\ pdfDoc' = "open"
    /\ extractorMade' = TRUE
    /\ LET wanted == cfg.use_advanced_ai /\ ~cfg.minimize_memory
       IN  \E ctor \in Choices(<<"ctor", 0>>, {"ok", "raise"}) :
              /\ sharedAI' = (wanted /\ ctor = "ok")
              /\ ctorCount' = IF wanted THEN ctorCount + 1 ELSE ctorCount
              /\ script' = script \cup Noted(<<"load", 0>>, "ok")
                                  \cup (IF wanted THEN Noted(<<"ctor", 0>>, ctor) ELSE {})
    /\ pc' = "iter"
    /\ UNCHANGED <<clsVars, parseVars, visited, doc, cfg, mode, advAI, images, pagesData,
                   analysis, toProcess, idx, stepsRun, lastResp, pageItems, allItems,
                   streamItems, pageNo, curPath, exc, result, paired, first>>

\* pipeline.py:119-122 with the flag raised for every page
IsCandidateAlways(raw) == TRUE

\* pipeline.py:119-122: the lightweight candidate flag
IsCandidate(raw) ==
    LET text == LowerText(raw)
    IN  \/ \E w \in WordsOf(text) : ProductHits(w) \cap {"86-", "87-"} # {}
        \/ /\ TextLen(text) > CandidateChars
           /\ \E w \in WordsOf(text) : ProductHits(w) \cap {"model", "years", "part"} # {}

\* line 116 and pdf_analyzer.py:93-111: iter_pages yields the next page,
\* rendering its image first when render_image (not minimize_memory); then
\* lines 117-144: with minimize_memory, a candidate page without an image
\* gets one rendered, and a failure of that rendering is swallowed
StreamNextPage ==
    /\ mode = "streaming" /\ pc = "iter"
    /\ pageNo < Len(doc)
    /\ LET p == pageNo + 1
       IN  /\ pageNo' = p
           /\ IF ~cfg.minimize_memory
              THEN /\ RenderAllowed(p, "ok")
                   /\ images' = images \cup {p}
                   /\ curPath' = TRUE
                   /\ script' = script \cup Noted(<<"render", p>>, "ok")
              ELSE IF IsCandidate(RawText(p))
              THEN \E out \in Choices(<<"render", p>>, {"ok", "raise"}) :
                      /\ images' = IF out = "ok" THEN images \cup {p} ELSE images
                      /\ curPath' = (out = "ok")
                      /\ script' = script \cup Noted(<<"render", p>>, out)
              ELSE /\ curPath' = FALSE
                   /\ UNCHANGED <<images, script>>
    /\ pc' = "call"
    /\ UNCHANGED <<clsVars, parseVars, pdfDoc, visited, doc, cfg, mode, extractorMade, ctorCount, advAI,
                   sharedAI, pagesData, analysis, toProcess, idx, stepsRun,
                   lastResp, pageItems, allItems, streamItems, exc, result, paired,
                   first>>

\* line 116 and pdf_analyzer.py:103-109: rendering inside iter_pages raises;
\* the generator is not guarded and the exception leaves the entry point
StreamNextPageRaises ==
    /\ mode = "streaming" /\ pc = "iter"
    /\ pageNo < Len(doc)
    /\ ~cfg.minimize_memory
    /\ RenderAllowed(pageNo + 1, "raise")
    /\ script' = script \cup Noted(<<"render", pageNo + 1>>, "raise")
    /\ exc' = "render"
    /\ pc' = "raised"
    /\ UNCHANGED <<clsVars, parseVars, pdfDoc, visited, doc, cfg, mode, extractorMade, ctorCount, advAI,
                   sharedAI, images, pagesData, analysis, toProcess, idx, stepsRun,
                   lastResp, pageItems, allItems, streamItems, pageNo, curPath,
                   result, paired, first>>

\* lines 145-153: extract_hybrid_data is called for the one page, with the
\* keyword shared_advanced_ai among its arguments
StreamExtract ==
    /\ mode = "streaming" /\ pc = "call"
    /\ IF Binds(StreamingKwargs)
       THEN /\ EnterHybrid(<<pageNo>>, <<>>,
                           cfg.use_advanced_ai /\ ~cfg.minimize_memory)
            /\ UNCHANGED exc
       ELSE /\ exc' = "TypeError"
            /\ pc' = "raised"
            /\ UNCHANGED <<advAI, ctorCount, script, allItems, toProcess, idx>>
    /\ UNCHANGED <<clsVars, parseVars, pdfDoc, visited, doc, cfg, mode, extractorMade, sharedAI, images,
                   pagesData, analysis, stepsRun, lastResp, pageItems, streamItems,
                   pageNo, curPath, result, paired, first>>

\* line 166: the generator is exhausted and the result is returned
StreamReturn ==
    /\ mode = "streaming" /\ pc = "iter"
    /\ pageNo = Len(doc)
    /\ result' = [kind |-> "returned", success |-> TRUE, error |-> "",
                  has_items |-> TRUE, items |-> streamItems, pages |-> Len(doc)]
    /\ pc' = "done"
    /\ UNCHANGED <<clsVars, parseVars, pdfDoc, visited, doc, cfg, mode, extractorMade, ctorCount, advAI,
                   sharedAI, images, pagesData, analysis, toProcess, idx, stepsRun,
                   lastResp, pageItems, allItems, streamItems, pageNo, curPath, exc,
                   paired, script, first>>

\* --------------------------------------------------- the paired session
\* the first call has ended; the other entry point is called on the same
\* document, arguments and collaborator outcomes, with a fresh temp_dir
SecondCall ==
    /\ paired
    /\ first = NoFirst
    /\ pc \in {"done", "raised"}
    /\ first' = [mode |-> mode, exc |-> exc, result |-> result]
    /\ mode' = IF mode = "batch" THEN "streaming" ELSE "batch"
    /\ pc' = "start"
    /\ pdfDoc' = "unset"
    /\ visited' = <<>>
    /\ extractorMade' = FALSE
    /\ ctorCount' = 0
    /\ advAI' = FALSE
    /\ sharedAI' = FALSE
    /\ images' = {}
    /\ pagesData' = <<>>
    /\ analysis' = <<>>
    /\ toProcess' = <<>>
    /\ idx' = 0
    /\ stepsRun' = {}
    /\ lastResp' = "none"
    /\ pageItems' = <<>>
    /\ allItems' = <<>>
    /\ streamItems' = <<>>
    /\ pageNo' = 0
    /\ curPath' = FALSE
    /\ exc' = "none"
    /\ result' = NoResult
    /\ UNCHANGED <<clsVars, parseVars, doc, cfg, paired, script>>

\* ------------------------------------------------------ specifications
RunNext ==
    \/ BatchLoad
    \/ BatchLoadFails
    \/ BatchImages
    \/ BatchImagesRaises
    \/ BatchClassify
    \/ BatchExtract
    \/ HybridMultimodal
    \/ HybridTextOnly
    \/ HybridVisionOnly
    \/ HybridReturn
    \/ StreamLoad
    \/ StreamLoadFails
    \/ StreamNextPage
    \/ StreamNextPageRaises
    \/ StreamExtract
    \/ StreamReturn

\* one call of one entry point on a document of up to MaxPages pages
Init ==
    /\ ClsIdle
    /\ ParseIdle
    /\ doc \in Docs(MaxPages)
    /\ cfg \in Configs
    /\ \E m \in {"batch", "streaming"} : RunStart(m)
    /\ paired = FALSE
    /\ script = {}
    /\ first = NoFirst

Next == RunNext

Spec == Init /\ [][Next]_vars

\* both entry points, one after the other, on the same inputs
InitParity ==
    /\ ClsIdle
    /\ ParseIdle
    /\ doc \in Docs(ParityPages)
    /\ cfg \in Configs
    /\ \E m \in {"batch", "streaming"} : RunStart(m)
    /\ paired = TRUE
    /\ script = {}
    /\ first = NoFirst

NextParity == RunNext \/ SecondCall

SpecParity == InitParity /\ [][NextParity]_vars

\* the classifier applied to one page text
InitClassify ==
    /\ pageText \in Texts
    /\ decision = NoDecision
    /\ strategy = NoStrategy
    /\ ParseIdle
    /\ PipeIdle

NextClassify ==
    \/ DetectProductDataPages
    \/ GetExtractionStrategy

SpecClassify == InitClassify /\ [][NextClassify]_vars

\* the parser applied to one reply
InitParse ==
    /\ reply \in Replies
    /\ parsed = Unparsed
    /\ ClsIdle
    /\ PipeIdle

NextParse == Validate

SpecParse == InitParse /\ [][NextParse]_vars

\* ================================================================ claims
IsPrefix(a, b) == Len(a) <= Len(b) /\ SubSeq(b, 1, Len(a)) = a

InHybrid == pc \in {"mm", "textonly", "vision", "hybrid_return"}

YieldedBy(step) == pageItems # <<>> /\ pageItems[1][2] = step

\* C1: for every page, when the multimodal step yields a non-empty list of
\* items the raw-text-only step and the vision-only step are not attempted
\* for that page, and when the raw-text-only step yields one the vision-only
\* step is not attempted; a page's items all come from one step.
C1_FallbackOrdering ==
    /\ YieldedBy("mm") => stepsRun \cap {"text", "vision"} = {}
    /\ YieldedBy("text") => "vision" \notin stepsRun
    /\ \A i \in 1..Len(pageItems) : pageItems[i][2] = pageItems[1][2]

\* C1 witness: the multimodal step yielded items for a page whose raw text
\* is longer than 100 characters and whose image exists, and the page is done
C1_Witness ==
    /\ pc = "hybrid_return"
    /\ YieldedBy("mm")
    /\ StrippedLen(RawText(pageItems[1][1])) > 100
    /\ ImageExists(pageItems[1][1])
    /\ stepsRun = {"ocr", "mm"}

BothEnded == paired /\ first # NoFirst /\ pc \in {"done", "raised"}

\* C2: given identical page inputs and identical collaborator responses,
\* process_document and process_document_streaming return the same ordered
\* item list (runs in which a page rendering failed are left aside).
C2_Parity ==
    (BothEnded /\ exc # "render" /\ first.exc # "render")
        => /\ exc = "none" /\ first.exc = "none"
           /\ result.has_items = first.result.has_items
           /\ result.items = first.result.items

\* C3: once the PDF has loaded, a failing collaborator call (OCR, LLM text
\* call, LLM vision call, page-image rendering) is caught: its exception does
\* not leave process_document or process_document_streaming.
C3_FailureIsCaught == ~(pc = "raised" /\ exc \in {"render", "ocr", "llm"})

\* C4: when the PDF fails to load, the entry point returns the failure result
\* at once: success is false with an error, no page is classified, no image
\* rendered, no OCR or LLM collaborator constructed or called, and the result
\* carries no items.
C4_LoadFailureIsFatal ==
    pdfDoc = "none" =>
        /\ pc = "done"
        /\ result.kind = "returned" /\ ~result.success
        /\ result.error = "Failed to load PDF"
        /\ ~result.has_items /\ result.items = <<>>
        /\ analysis = <<>> /\ pagesData = <<>> /\ visited = <<>>
        /\ images = {}
        /\ ~extractorMade /\ ctorCount = 0
        /\ stepsRun = {} /\ lastResp = "none"

\* C4 witness: a document with pages failed to load and the call has returned
C4_Witness == pdfDoc = "none" /\ pc = "done" /\ Len(doc) > 0 /\ cfg.use_advanced_ai

\* the pages of the document flagged is_product_page, in document order
ProductPagesOf(d) ==
    SelectSeq([i \in 1..Len(d) |-> i],
              LAMBDA p : Classify(SampleText(d[p])).is_product_page)

\* C5: in batch mode per-page extraction runs on exactly the pages classified
\* is_product_page, in document order; the full page set is used only when
\* the analysis is empty (a document without pages).
C5_BatchRunsOnProductPages ==
    mode = "batch" =>
        /\ IsPrefix(visited, ProductPagesOf(doc))
        /\ (pc = "done" /\ result.success) => visited = ProductPagesOf(doc)
        /\ (InHybrid /\ analysis = <<>>) => toProcess = pagesData

\* C5 witness: a finished batch run that took up pages 1 and 3 of a
\* three-page document and left page 2 out
C5_Witness ==
    /\ mode = "batch" /\ pc = "done" /\ result.success
    /\ Len(doc) = 3
    /\ visited = <<1, 3>>

Scenario == <<"product", "toc", "short">>

ScenarioReached == mode = "batch" /\ doc = Scenario /\ (InHybrid \/ (pc = "done" /\ result.success))

\* C6 as stated: in the three-page scenario batch mode restricts extraction to
\* pages 1 and 3.
C6_Original == ScenarioReached => toProcess = <<1, 3>>

\* C6 amended: in the three-page scenario page 1 is classified product with
\* confidence high, page 2 non-product with confidence high, page 3 falls to
\* the length rule and is non-product with confidence low, and batch mode
\* restricts extraction to page 1.
C6_Scenario ==
    ScenarioReached =>
        /\ StrippedLen(SampleText("product")) > 500
        /\ StrippedLen(SampleText("short")) = 10
        /\ analysis = << [page |-> 1, is_product_page |-> TRUE, confidence |-> "high"],
                         [page |-> 2, is_product_page |-> FALSE, confidence |-> "high"],
                         [page |-> 3, is_product_page |-> FALSE, confidence |-> "low"] >>
        /\ toProcess = <<1>>
        /\ IsPrefix(visited, <<1>>)

\* C6 witness: the batch run on the scenario document has finished
C6_Witness ==
    /\ mode = "batch" /\ doc = Scenario /\ pc = "done" /\ result.success
    /\ visited = <<1>>

Decided == decision # NoDecision

IntroWins == IntroScore(LowerText(pageText)) > ProductScore(LowerText(pageText))

TabularWithParts ==
    /\ TabularIndicators(LowerText(pageText)) >= 5
    /\ PartNumberLines(LowerText(pageText)) > 2

\* C7 as stated: every page text with intro_score > product_score is
\* classified non-product with confidence high, whatever else is on the page.
C7_Original ==
    (Decided /\ IntroWins)
        => decision = [is_product_page |-> FALSE, confidence |-> "high"]

\* C7 amended: every page text with intro_score > product_score that is not
\* both tabular and rich in part-number lines is classified non-product with
\* confidence high, regardless of its length.
C7_IntroRule ==
    (Decided /\ IntroWins /\ ~TabularWithParts)
        => decision = [is_product_page |-> FALSE, confidence |-> "high"]

\* C7 witness: a classified page of more than 500 characters on which the
\* intro keywords win
C7_Witness ==
    /\ Decided /\ IntroWins /\ ~TabularWithParts
    /\ StrippedLen(pageText) > 500
    /\ ProductScore(LowerText(pageText)) > 0

\* C8: every page text with at least 5 tabular signals and more than 2 lines
\* holding a part-number prefix is classified product with confidence high,
\* whatever the keyword scores are.
C8_TabularRule ==
    (Decided /\ TabularWithParts)
        => decision = [is_product_page |-> TRUE, confidence |-> "high"]

\* C8 witness: a classified tabular page with part numbers on which the intro
\* keywords outnumber the product keywords
C8_Witness == Decided /\ TabularWithParts /\ IntroWins

Recommended == strategy # NoStrategy

ByLength(n) ==
    IF n > 100 THEN [method |-> "text", confidence |-> "high"]
    ELSE IF n > 20 THEN [method |-> "hybrid", confidence |-> "medium"]
    ELSE [method |-> "vision", confidence |-> "high"]

\* C9 as stated: the recommendation follows the thresholds 100 and 20 applied
\* to the length of the page's raw text.
C9_Original == Recommended => strategy = ByLength(TextLen(pageText))

\* C9 amended: the recommendation follows the thresholds 100 and 20 applied
\* to the length of the raw text with leading and trailing whitespace
\* stripped: "text"/high above 100, "hybrid"/medium in (20,100],
\* "vision"/high up to 20.
C9_StrategyThresholds == Recommended => strategy = ByLength(StrippedLen(pageText))

\* C9 witness: a page whose raw text has more than 100 characters and whose
\* stripped text has exactly 100 got the recommendation "hybrid"
C9_Witness ==
    /\ Recommended
    /\ TextLen(pageText) > 100
    /\ StrippedLen(pageText) = 100
    /\ strategy.method = "hybrid"

\* the JSON value that starts at the reply's first opening bracket, None when
\* there is no bracket or no well-formed value starts there
ValueAtFirstBracket(s) ==
    LET opens == IndicesOf(s, "[") \cup IndicesOf(s, "{")
    IN  IF opens = {} THEN None
        ELSE IF ParseValue(s, MinOf(opens)).ok THEN ParseValue(s, MinOf(opens)).val
        ELSE None

\* C10: a reply in which a well-formed JSON array or object starts at the
\* first opening bracket (nested brackets included, fenced or surrounded by
\* prose) parses to that value rather than None.
C10_EmbeddedValue ==
    (parsed # Unparsed /\ ValueAtFirstBracket(reply) # None)
        => parsed = ValueAtFirstBracket(reply)

\* the responses that cannot be coerced into a non-empty list of items: a
\* failed call, an empty text, prose, an object, an empty list, and a list
\* the bracket pattern cuts short
AddsNothing(kind) == ~IsNonEmptyList(ValidateExtractedData(LLMReply(kind)))

\* C11: a response that cannot be coerced into JSON parses to None without
\* raising and the step that received it contributes no items; the same
\* holds for a parsed value that is not a non-empty list.
C11_UnparsableAddsNothing ==
    /\ ValidateExtractedData(LLMReply("prose")) = None
    /\ ~IsNonEmptyList(ValidateExtractedData(LLMReply("object")))
    /\ ~IsNonEmptyList(ValidateExtractedData(LLMReply("emptylist")))
    /\ (lastResp \in RespKinds /\ AddsNothing(lastResp))
          => pageItems = <<>> /\ exc = "none"

\* C11 witness: for one page the text step and the vision step both ran, the
\* last response was prose, and the page is done without having added items
C11_Witness ==
    /\ pc \in {"mm", "hybrid_return"}
    /\ {"text", "vision"} \subseteq stepsRun
    /\ lastResp = "prose"
    /\ pageItems = <<>>
    /\ exc = "none"

AllPages == [i \in 1..Len(doc) |-> i]

\* C12: in streaming mode every page the PDF source yields is passed to
\* per-page extraction exactly once and in page order, whatever its candidate
\* flag, and the run ends with success = true after the last page (runs in
\* which a page rendering failed are left aside).
C12_StreamingProcessesEveryPage ==
    (mode = "streaming" /\ pdfDoc = "open" /\ exc # "render") =>
        /\ IsPrefix(visited, AllPages)
        /\ pc # "raised"
        /\ pc = "done" => (result.success /\ visited = AllPages)

Taken(page) == \E i \in 1..Len(visited) : visited[i] = page

\* C13: within one run the AdvancedDocumentAI helper is constructed at most
\* once, every OCR step uses the instance so constructed, and in streaming
\* mode the shared instance serves every page the source has yielded (runs
\* in which a page rendering failed are left aside).
C13_SingleSharedHelper ==
    /\ ctorCount <= 1
    /\ "ocr" \in stepsRun => (advAI /\ ctorCount = 1)
    /\ (mode = "streaming" /\ sharedAI /\ pageNo >= 1 /\ pc # "call" /\ exc # "render")
          => Taken(pageNo)

Finished == pc = "done" /\ result.success

ProductDecisions == {i \in 1..Len(analysis) : analysis[i].is_product_page}

\* C14 as stated: at the end of a run the number of decisions produced equals
\* the number of pages passed to per-page extraction.
C14_Original == Finished => Len(analysis) = Len(visited)

\* C14 amended: no page is classified more than once in a run; a batch run
\* produces one decision for each page of the document and passes to
\* extraction as many pages as it has product decisions, never more than it
\* has decisions; a streaming run produces no decision list.
C14_DecisionsAndProcessed ==
    /\ \A i, j \in 1..Len(analysis) : analysis[i].page = analysis[j].page => i = j
    /\ (mode = "batch" /\ pc \in {"extract", "mm", "textonly", "vision", "hybrid_return", "done"}
            /\ pdfDoc = "open")
          => /\ Len(analysis) = Len(doc)
             /\ \A i \in 1..Len(analysis) : analysis[i].page = i
    /\ (mode = "batch" /\ Finished)
          => /\ Len(visited) = Cardinality(ProductDecisions)
             /\ Len(visited) <= Len(analysis)
    /\ mode = "streaming" => analysis = <<>>

\* C14 witness: a finished batch run with three decisions and one page
\* processed
C14_Witness ==
    /\ mode = "batch" /\ Finished
    /\ Len(analysis) = 3
    /\ Len(visited) = 1

PosOf(page) == CHOOSE k \in 1..Len(visited) : visited[k] = page

IsSuffix(a, b) == Len(a) <= Len(b) /\ SubSeq(b, Len(b) - Len(a) + 1, Len(b)) = a

\* the item list of the run so far: pages follow the order of visitation, a
\* page's items are contiguous and keep the order of the list they came from
InVisitOrder(items) ==
    /\ \A i \in 1..Len(items) : Taken(items[i][1])
    /\ items # <<>> => items[1][3] = 1
    /\ \A i \in 1..(Len(items) - 1) :
          \/ /\ items[i + 1][1] = items[i][1]
             /\ items[i + 1][2] = items[i][2]
             /\ items[i + 1][3] = items[i][3] + 1
          \/ /\ PosOf(items[i + 1][1]) > PosOf(items[i][1])
             /\ items[i + 1][3] = 1

C15_State ==
    /\ InVisitOrder(allItems)
    /\ (pc \in {"mm", "hybrid_return"} /\ idx > 1) => IsSuffix(pageItems, allItems)
    /\ (mode = "batch" /\ Finished) => result.items = allItems

C15_Step ==
    /\ pc = "vision" => allItems' = allItems \o pageItems'
    /\ pc \in {"mm", "textonly"} => allItems' = allItems
    /\ (pc = "hybrid_return" /\ mode = "batch") => result'.items = allItems

\* C15: the run's item list is the concatenation, in page-visitation order,
\* of the item lists extracted for the visited pages: each finished page
\* appends its whole list at the end, earlier items are never moved, dropped
\* or altered, and the result carries the accumulated list as it is.
C15_Concatenation == []C15_State /\ [][C15_Step]_vars

\* C15 witness: a finished batch run whose result holds two items of one page
\* followed by two items of a later page
C15_Witness ==
    /\ mode = "batch" /\ Finished
    /\ Len(result.items) = 4
    /\ result.items[1][1] = 1 /\ result.items[2] = <<1, result.items[1][2], 2>>
    /\ result.items[3][1] > 1 /\ result.items[4][3] = 2

\* the pages the lightweight heuristic flags: a part-number prefix somewhere,
\* or more than 100 characters together with one of model, years, part
Flagged(page) ==
    LET text == LowerText(RawText(page))
    IN  \/ \E i \in 1..Len(text) : HasPartPrefix(text[i])
        \/ /\ TextLen(text) > 100
           /\ WordsOf(text) \cap {"model", "years", "part"} # {}

\* C16: with minimize_memory on, no page image is pre-rendered; a streaming
\* run renders an image only for a flagged page and only once that page has
\* been yielded, right before its extraction, so a page that is not flagged
\* never has an image.
C16_LazyRendering ==
    cfg.minimize_memory =>
        /\ mode = "batch" => images = {}
        /\ mode = "streaming" =>
              /\ \A p \in images : Flagged(p) /\ p <= pageNo
              /\ pc = "iter" => images \subseteq 1..pageNo
              /\ curPath => (pageNo \in images /\ Flagged(pageNo))

\* C16 witness: a streaming run with minimize_memory on has rendered the
\* image of its flagged first page and is about to extract from it
C16_Witness ==
    /\ cfg.minimize_memory /\ mode = "streaming"
    /\ pc = "call" /\ pageNo = 1
    /\ Flagged(1) /\ images = {1}
    /\ Len(doc) > 1 /\ ~Flagged(2)

\* the lines that count as a tabular signal in the stated rule: a dot leader
\* or at least three numeric tokens
SignalLines(text) ==
    {i \in 1..Len(text) : HasDotLeader(text[i]) \/ NumericWords(text[i]) >= 3}

\* the signals of the amended rule, one per line and kind
SignalsByKind(text) ==
    {<<i, "leader">> : i \in {k \in 1..Len(text) : HasDotLeader(text[k])}}
    \cup {<<i, "numbers">> : i \in {k \in 1..Len(text) : NumericWords(text[k]) >= 3}}
    \cup {<<i, "prefix">> : i \in {k \in 1..Len(text) :
                \E j \in 1..Len(text[k]) : text[k][j] \in {"86-1234", "87-55"}}}

IsTabular == DetectTabularStructure(LowerText(pageText))

\* C18 as stated: a page is tabular exactly when at least 5 of its lines hold
\* a dot leader or three numeric tokens; nothing else counts.
C18_Original ==
    Decided => (IsTabular <=> Cardinality(SignalLines(LowerText(pageText))) >= 5)

\* C18 amended: every non-blank line adds one signal for a dot leader, one
\* for three or more numeric tokens and one for a part-number prefix (86- or
\* 87-), so one line can add up to three; a page is tabular exactly when the
\* signals add up to at least 5.
C18_TabularSignals ==
    Decided => (IsTabular <=> Cardinality(SignalsByKind(LowerText(pageText))) >= 5)

\* C18 witness: a classified page of three lines that is tabular, five of its
\* signals coming from fewer than five lines
C18_Witness ==
    /\ Decided /\ IsTabular
    /\ Len(pageText) = 3
    /\ Cardinality(SignalLines(LowerText(pageText))) = 3
    /\ decision = [is_product_page |-> TRUE, confidence |-> "high"]

ScoreRuleApplies ==
    /\ ProductScore(LowerText(pageText)) > IntroScore(LowerText(pageText))
    /\ ProductScore(LowerText(pageText)) >= 3

LengthRuleApplies == ~TabularWithParts /\ ~ScoreRuleApplies /\ ~IntroWins

\* the policy below rule 1, with the length rule measuring n characters
PolicyHolds(n) ==
    /\ (~TabularWithParts /\ ScoreRuleApplies)
          => decision = [is_product_page |-> TRUE, confidence |-> "medium"]
    /\ LengthRuleApplies
          => decision = [is_product_page |-> n > 500, confidence |-> "low"]
    /\ decision.confidence \in {"low", "medium", "high"}

\* C19 as stated: below rule 1 the score rule gives product/medium, and when
\* neither it nor the intro rule applies the page is a product page iff its
\* text is longer than 500 characters, confidence low; every page gets one
\* decision with a confidence among low, medium, high.
C19_Original == Decided => PolicyHolds(TextLen(pageText))

\* C19 amended: the same ordered policy, the length rule measuring the text
\* with leading and trailing whitespace stripped.
C19_DecisionPolicy == Decided => PolicyHolds(StrippedLen(pageText))

\* C19 witness: a page that falls to the length rule with more than 500
\* characters of text, no more than 500 once stripped, decided non-product
C19_Witness ==
    /\ Decided /\ LengthRuleApplies
    /\ TextLen(pageText) > 500
    /\ StrippedLen(pageText) <= 500
    /\ decision = [is_product_page |-> FALSE, confidence |-> "low"]

\* C20: process_document works on all pages, or on at most the first
\* max_pages pages when max_pages is given: with max_pages = k no page
\* numbered above k is classified, rendered or passed to extraction and the
\* reported page count is at most k; with max_pages = None every page is
\* classified and counted.
C20_MaxPagesHonoured ==
    mode = "batch" =>
        /\ cfg.max_pages # 0 =>
              /\ \A i \in 1..Len(analysis) : analysis[i].page <= cfg.max_pages
              /\ \A p \in images : p <= cfg.max_pages
              /\ \A i \in 1..Len(visited) : visited[i] <= cfg.max_pages
              /\ result.pages <= cfg.max_pages
        /\ (cfg.max_pages = 0 /\ Finished) =>
              /\ Len(analysis) = Len(doc)
              /\ result.pages = Len(doc)

\* C21: when the caller supplies no extraction prompt, extract_structured_data
\* and extract_from_image return None without calling an LLM service, no
\* step of any page yields items, and a batch run on a loaded PDF that comes
\* to its end returns success = true with an empty item list (the one other
\* way out of the run is a page rendering that raises).
C21_NoPromptNoItems ==
    ~cfg.prompt =>
        /\ lastResp \notin RespKinds
        /\ pageItems = <<>> /\ allItems = <<>> /\ streamItems = <<>>
        /\ (mode = "batch" /\ pdfDoc = "open" /\ pc = "done")
              => /\ result.kind = "returned" /\ result.success
                 /\ result.has_items /\ result.items = <<>>
        /\ (mode = "batch" /\ pc = "raised") => exc = "render"

\* C21 witness: a batch run without a prompt and with a configured service
\* has finished after attempting the text and the vision step on a page
C21_Witness ==
    /\ ~cfg.prompt /\ cfg.llm
    /\ mode = "batch" /\ pdfDoc = "open" /\ Finished
    /\ visited # <<>>
    /\ {"text", "vision"} \subseteq stepsRun
    /\ lastResp = "uncalled"
    /\ result.items = <<>>

====
